---- MODULE Spec2Model ----
(***************************************************************************)
(* ANDE faucet backend: the request-admission pipeline                     *)
(* (FaucetService.processRequest), the fixed-window rate limiter           *)
(* (RedisService.checkRateLimit), the chain client                         *)
(* (BlockchainService.getBalance / sendTokens), the captcha verifier and   *)
(* the administrative manual send.                                         *)
(*                                                                         *)
(* Every `await` of the source is one atomic action: the effect of the     *)
(* awaited call on the shared store / chain, followed by the synchronous   *)
(* continuation of the caller up to its next await.  Several handlers run  *)
(* concurrently (Node.js interleaves them at the awaits).                  *)
(***************************************************************************)
EXTENDS Integers, Sequences, FiniteSets

\* ------------------------------------------------------------------------
\* Bounds of the model
\* ------------------------------------------------------------------------
\* handlers that may be in flight at the same time
NumTasks == 2
\* operations (HTTP requests) started in one behaviour
MaxOps == 2
\* clock advances in one behaviour
MaxTicks == 1
\* operations started in one behaviour when they are issued one after another
MaxSeqOps == 3

\* ------------------------------------------------------------------------
\* Configuration (defaults of config/index.ts)
\* ------------------------------------------------------------------------
FAUCET_AMOUNT == 10
IP_WINDOW_MS == 3600000
IP_MAX_REQUESTS == 5
ADDRESS_WINDOW_MS == 86400000
ADDRESS_MAX_REQUESTS == 1

\* ------------------------------------------------------------------------
\* Numbers in strings: sequences of decimal digits
\* ------------------------------------------------------------------------
DigitChars == <<"0", "1", "2", "3", "4", "5", "6", "7", "8", "9">>

\* Number.prototype.toString / String(n) of a non-negative integer
RECURSIVE NumberToString(_)
NumberToString(n) ==
    IF n < 10 THEN <<DigitChars[n + 1]>>
    ELSE NumberToString(n \div 10) \o <<DigitChars[(n % 10) + 1]>>

DigitVal(c) == CHOOSE d \in 0..9 : DigitChars[d + 1] = c

\* parseInt(s, 10) / parseFloat(s) of a string of decimal digits
RECURSIVE ParseInt(_)
ParseInt(s) ==
    IF Len(s) = 1 THEN DigitVal(s[1])
    ELSE 10 * ParseInt(SubSeq(s, 1, Len(s) - 1)) + DigitVal(s[Len(s)])

\* ------------------------------------------------------------------------
\* Text: a string is a sequence of runs <<c, n>>, the character c repeated n
\* times, with no two neighbouring runs of the same character.  A word that is
\* only ever compared as a whole ("ip:", an IP address) is one run.
\* ------------------------------------------------------------------------
LowerHex == {"a", "b", "c", "d", "e", "f"}

UpperHex == {"A", "B", "C", "D", "E", "F"}

HexChars == {DigitChars[i] : i \in 1..10} \cup LowerHex \cup UpperHex

\* String.prototype.toLowerCase on one character
LowerChar(c) ==
    CASE c = "A" -> "a" [] c = "B" -> "b" [] c = "C" -> "c"
      [] c = "D" -> "d" [] c = "E" -> "e" [] c = "F" -> "f"
      [] c = "X" -> "x" [] c = "Z" -> "z"
      [] OTHER -> c

\* neighbouring runs of one character joined
RECURSIVE Joined(_)
Joined(s) ==
    IF Len(s) <= 1 THEN s
    ELSE LET rest == Joined(Tail(s))
         IN  IF s[1][1] = rest[1][1]
             THEN <<<<s[1][1], s[1][2] + rest[1][2]>>>> \o Tail(rest)
             ELSE <<s[1]>> \o rest

ToLowerCase(s) == Joined([i \in 1..Len(s) |-> <<LowerChar(s[i][1]), s[i][2]>>])

\* number of characters of runs i.. of s
RECURSIVE CharsFrom(_, _)
CharsFrom(s, i) == IF i > Len(s) THEN 0 ELSE s[i][2] + CharsFrom(s, i + 1)

HasPrefix0x(s) == Len(s) >= 2 /\ s[1] = <<"0", 1>> /\ s[2] = <<"x", 1>>

\* ------------------------------------------------------------------------
\* Addresses
\* ------------------------------------------------------------------------
\* 0xaaaa...a (40 hex digits, lower case)
ADDR_LOWER == <<<<"0", 1>>, <<"x", 1>>, <<"a", 40>>>>

\* the same account written 0xAAAA...A
ADDR_UPPER == <<<<"0", 1>>, <<"x", 1>>, <<"A", 40>>>>

\* the same account in mixed case, not its EIP-55 checksum spelling
ADDR_MIXED == <<<<"0", 1>>, <<"x", 1>>, <<"A", 1>>, <<"a", 39>>>>

\* another account: 0xbbbb...b
ADDR_OTHER == <<<<"0", 1>>, <<"x", 1>>, <<"b", 40>>>>

\* malformed: 0xZZZZ
ADDR_BAD == <<<<"0", 1>>, <<"x", 1>>, <<"Z", 4>>>>

Addresses == {ADDR_LOWER, ADDR_UPPER, ADDR_MIXED, ADDR_OTHER, ADDR_BAD}

\* 40 hex digits without the 0x: aaaa...a
ADDR_NOPREFIX == <<<<"a", 40>>>>

\* the address of the request example, 0x742d35Cc6634C0532925a3b844Bc9e7595f0bEb
ADDR_README ==
    <<<<"0", 1>>, <<"x", 1>>, <<"7", 1>>, <<"4", 1>>, <<"2", 1>>, <<"d", 1>>, <<"3", 1>>,
      <<"5", 1>>, <<"C", 1>>, <<"c", 1>>, <<"6", 2>>, <<"3", 1>>, <<"4", 1>>, <<"C", 1>>,
      <<"0", 1>>, <<"5", 1>>, <<"3", 1>>, <<"2", 1>>, <<"9", 1>>, <<"2", 1>>, <<"5", 1>>,
      <<"a", 1>>, <<"3", 1>>, <<"b", 1>>, <<"8", 1>>, <<"4", 2>>, <<"B", 1>>, <<"c", 1>>,
      <<"9", 1>>, <<"e", 1>>, <<"7", 1>>, <<"5", 1>>, <<"9", 1>>, <<"5", 1>>, <<"f", 1>>,
      <<"0", 1>>, <<"b", 1>>, <<"E", 1>>, <<"b", 1>>>>

\* what a POST /request body may carry as its address (<<>>: none)
RouteAddresses == {<<>>, ADDR_LOWER, ADDR_NOPREFIX, ADDR_README}

IP_ONE == <<<<"10.0.0.1", 1>>>>

IP_TWO == <<<<"10.0.0.2", 1>>>>

IPs == {IP_ONE, IP_TWO}

\* proof tokens: none, one the provider accepts, one it rejects
Tokens == {"", "good", "bad"}

\* the value of ADMIN_TOKEN when it is set
ADMIN_TOKEN == <<<<"s3cret", 1>>>>

\* the Authorization header: <<>> when absent, else the scheme and what follows
BEARER == <<"Bearer ", 1>>

Bearer(token) == <<BEARER>> \o token

AuthHeaders ==
    {<<>>, <<<<"Basic ", 1>>>> \o ADMIN_TOKEN, Bearer(ADMIN_TOKEN),
     Bearer(<<<<"guess", 1>>>>), Bearer(<<>>)}

\* the 500 branch left out
adminAuth_NoConfigCheck(header, configured) ==
    IF header = <<>> \/ header[1] # BEARER THEN 401
    ELSE IF Tail(header) # configured THEN 403
    ELSE 0

\* adminAuth: the status it answers with, 0 when it calls next()
adminAuth(header, configured) ==
    IF header = <<>> \/ header[1] # BEARER THEN 401
    ELSE IF configured = <<>> THEN 500
    ELSE IF Tail(header) # configured THEN 403
    ELSE 0

\* the admin routes that only read
AdminReadRoutes == {"dashboard", "balance", "recent-requests", "config", "metrics"}

AdminRoutes == AdminReadRoutes \cup {"reset-rate-limit", "manual-send"}

\* no admin route has answered yet
NoResponse == [route |-> "none", header |-> <<>>, status |-> 0, type |-> "", value |-> <<>>]

\* only the prefix of the pattern: /^0x/
isValidAddress_PrefixOnly(address) == HasPrefix0x(address)

\* /^0x[a-fA-F0-9]{40}$/.test(address)
isValidAddress(address) ==
    /\ HasPrefix0x(address)
    /\ \A i \in 3..Len(address) : address[i][1] \in HexChars
    /\ CharsFrom(address, 3) = 40

\* ethers.isAddress: 40 hex digits with an optional 0x; a mixed-case spelling
\* must also be the EIP-55 checksum spelling (none of the sample addresses is)
IsAddress(address) ==
    LET first == IF HasPrefix0x(address) THEN 3 ELSE 1
        body  == first..Len(address)
    IN  /\ \A i \in body : address[i][1] \in HexChars
        /\ CharsFrom(address, first) = 40
        /\ ~(/\ \E i \in body : address[i][1] \in UpperHex
             /\ \E i \in body : address[i][1] \in LowerHex)

\* ------------------------------------------------------------------------
\* Amounts in wei (1 ANDE = 10^18 wei), kept exactly as <<ANDE, gwei, wei>>
\* with gwei, wei \in 0..10^9-1 (a bigint in the source)
\* ------------------------------------------------------------------------
Giga == 1000000000

Wei(a, g, w) == [ande |-> a, gwei |-> g, wei |-> w]

WeiLess(x, y) ==
    \/ x.ande < y.ande
    \/ x.ande = y.ande /\ x.gwei < y.gwei
    \/ x.ande = y.ande /\ x.gwei = y.gwei /\ x.wei < y.wei

\* x - y for y <= x
WeiSub(x, y) ==
    LET bw == IF x.wei < y.wei THEN 1 ELSE 0
        w  == x.wei - y.wei + bw * Giga
        bg == IF x.gwei - bw < y.gwei THEN 1 ELSE 0
        g  == x.gwei - bw - y.gwei + bg * Giga
    IN  Wei(x.ande - bg - y.ande, g, w)

\* parseEther(config.faucet.amount.toString())
AmountWei == Wei(FAUCET_AMOUNT, 0, 0)

\* largest k with 2^k < t
RECURSIVE Log2Below(_)
Log2Below(t) == IF t <= 2 THEN 0 ELSE 1 + Log2Below((t + 1) \div 2)

\* floor(10^18 / 2^(53-k)) for k = 0..6: half the distance, in wei, between
\* neighbouring IEEE-754 doubles in [2^k, 2^(k+1)) ANDE
HalfUlpWei == <<111, 222, 444, 888, 1776, 3552, 7105>>

\* parseFloat(formatEther(balance)) < t, for an integer t in 2..128.
\* formatEther prints all 18 decimals; parseFloat rounds that decimal to the
\* nearest double, so a balance less than half an ulp below t parses to t.
ParsedBalanceLess(balance, t) ==
    /\ WeiLess(balance, Wei(t, 0, 0))
    /\ LET d == WeiSub(Wei(t, 0, 0), balance)
       IN  d.ande > 0 \/ d.gwei > 0 \/ d.wei > HalfUlpWei[Log2Below(t) + 1]

\* value + fee of one faucet transfer: 10 ANDE plus 21000 gas at 1.2 gwei
\* (a quoted 1 gwei times the configured multiplier 1.2)
GasFee == Wei(0, 25200, 0)

TxCost == Wei(FAUCET_AMOUNT, 25200, 0)

\* the balance left once n transfers of TxCost are paid; <<>> if it cannot pay them
RECURSIVE AfterTransfers(_, _)
AfterTransfers(balance, n) ==
    IF n = 0 THEN <<balance>>
    ELSE IF WeiLess(balance, TxCost) THEN <<>>
    ELSE AfterTransfers(WeiSub(balance, TxCost), n - 1)

\* ------------------------------------------------------------------------
\* Counter store keys (FaucetService key prefixes)
\* ------------------------------------------------------------------------
IP_KEY_PREFIX == <<<<"ip:", 1>>>>

ADDRESS_KEY_PREFIX == <<<<"address:", 1>>>>

IPKey(ip) == IP_KEY_PREFIX \o ip

\* the key keeps the letter case of the address
AddressKey_CaseSensitive(address) == ADDRESS_KEY_PREFIX \o address

AddressKey(address) == ADDRESS_KEY_PREFIX \o ToLowerCase(address)

\* the keys POST /admin/reset-rate-limit deletes
RESET_IP_KEY_PREFIX == <<<<"ratelimit:ip:", 1>>>>

RESET_ADDRESS_KEY_PREFIX == <<<<"ratelimit:address:", 1>>>>

Keys ==
    {IPKey(ip) : ip \in IPs} \cup {AddressKey(a) : a \in {x \in Addresses : isValidAddress(x)}}

\* Math.floor(windowMs / 1000)
WindowSeconds(windowMs) == windowMs \div 1000

\* the limit the pipeline applies to a key
LimitOf(key) ==
    IF key \in {IPKey(ip) : ip \in IPs} THEN IP_MAX_REQUESTS ELSE ADDRESS_MAX_REQUESTS

\* ------------------------------------------------------------------------
\* State
\* ------------------------------------------------------------------------
VARIABLES
    tasks,          \* per handler: the operation it runs, where it is, its locals
    store,          \* rate-limit counters: key -> <<>> or <<[val, ttl]>>
    statsBlob,      \* the 'stats' key: <<>> or <<the JSON object>>
    txRecords,      \* the 'request:<hash>' keys: set of [hash, ttl]
    chainBalance,   \* confirmed balance of the faucet account, wei
    chainNonce,     \* confirmed transaction count of the faucet account
    pendingTxs,     \* transactions the node accepted and has not mined
    env,            \* process.env: the captcha switches the deployment sets
    fallbackConfigured, \* config.blockchain.rpcFallbackUrl is set
    adminToken,     \* config.admin.token ('' when ADMIN_TOKEN is not set)
    adminResponse,  \* the last answer an admin route gave
    storeErrors,    \* a store command has failed in this behaviour
    grants,         \* key -> allowed=true answers in the key's current window
    okSends,        \* processRequest calls that returned a transaction result
    opsStarted,
    ticks

vars == <<tasks, store, statsBlob, txRecords, chainBalance, chainNonce, pendingTxs,
          env, fallbackConfigured, adminToken, adminResponse, storeErrors,
          grants, okSends, opsStarted, ticks>>

\* the captcha variables as the deployment guide prescribes them
DEPLOYMENT_ENV == [TURNSTILE_ENABLED |-> "true", HCAPTCHA_ENABLED |-> "undefined"]

\* the environments the service is started in: the guide's, and one that sets
\* the variable the configuration reads
Environments ==
    {DEPLOYMENT_ENV, [TURNSTILE_ENABLED |-> "undefined", HCAPTCHA_ENABLED |-> "true"]}

\* config.captcha.enabled
captchaEnabled == env.HCAPTCHA_ENABLED = "true"

Tasks == 1..NumTasks

NoStats == [totalRequests |-> 0, successfulRequests |-> 0, failedRequests |-> 0,
            totalDistributed |-> <<"0">>]

\* no captcha verification has answered yet
NoCaptcha ==
    [success |-> "none", errorCodes |-> "none", called |-> FALSE, answer |-> "none"]

IdleTask ==
    [op |-> "none", pc |-> "idle", address |-> <<>>, ip |-> <<>>, token |-> "",
     phase |-> "none", key |-> <<>>, limit |-> 0, windowMs |-> 0, current |-> <<>>,
     resetInMs |-> 0, balance |-> <<>>, nonce |-> 0, hash |-> 0, sent |-> FALSE,
     stats |-> NoStats, amount |-> <<>>, result |-> "none", error |-> "none",
     status |-> 0, log |-> <<>>, captcha |-> NoCaptcha, amountToSend |-> 0]

\* balances the faucet account may hold when the service starts
InitialBalances ==
    {Wei(25, 0, 0), Wei(2 * FAUCET_AMOUNT, 0, 0),
     Wei(2 * FAUCET_AMOUNT - 1, Giga - 1, Giga - 1), Wei(15, 0, 0)}

\* The counter store outlives the service.  When the service starts, the origin
\* IP_TWO has used all but one of its requests half a window ago; every other
\* key is fresh.
InitialStore ==
    [k \in Keys |->
        IF k = IPKey(IP_TWO)
        THEN <<[val |-> NumberToString(IP_MAX_REQUESTS - 1),
                ttl |-> WindowSeconds(IP_WINDOW_MS) \div 2]>>
        ELSE <<>>]

\* the stats blob has no expiry and outlives the service: counters written
\* before the service was started
PriorStats ==
    [totalRequests |-> 2, successfulRequests |-> 2, failedRequests |-> 0,
     totalDistributed |-> NumberToString(2 * FAUCET_AMOUNT)]

InitFrom(balances, fallbacks, adminTokens, blobs) ==
    /\ tasks = [t \in Tasks |-> IdleTask]
    /\ store = InitialStore
    /\ statsBlob \in blobs
    /\ txRecords = {}
    /\ chainBalance \in balances
    /\ chainNonce = 0
    /\ pendingTxs = {}
    /\ env \in Environments
    /\ fallbackConfigured \in fallbacks
    /\ adminToken \in adminTokens
    /\ adminResponse = NoResponse
    /\ storeErrors = FALSE
    /\ grants = [k \in Keys |-> IF InitialStore[k] = <<>> THEN 0
                                 ELSE ParseInt(InitialStore[k][1].val)]
    /\ okSends = 0
    /\ opsStarted = 0
    /\ ticks = 0

\* a service started on a store without a stats blob
InitWith(balances, fallbacks, adminTokens) ==
    InitFrom(balances, fallbacks, adminTokens, {<<>>})

\* a service with a fallback endpoint and an admin token configured
Init == InitWith(InitialBalances, {TRUE}, {ADMIN_TOKEN})

\* ------------------------------------------------------------------------
\* Error messages and the catch block of POST /request
\* ------------------------------------------------------------------------
\* A message is the sequence of its words; a word is written in one piece, a
\* number as its digits.
W(s) == <<s>>

CeilDiv(a, b) == (a + b - 1) \div b

MS_PER_MINUTE == 60000

MS_PER_HOUR == 3600000

\* the message of the Error thrown at each throw site
MessageOf(error, resetInMs) ==
    CASE error = "InvalidAddressFormat" ->
           <<W("Invalid"), W("Ethereum"), W("address"), W("format")>>
      [] error = "CaptchaFailed" ->
           <<W("Captcha"), W("verification"), W("failed")>>
      [] error = "IPRateLimit" ->
           <<W("IP"), W("rate"), W("limit"), W("exceeded."), W("Try"), W("again"),
             W("in"), NumberToString(CeilDiv(resetInMs, MS_PER_MINUTE)), W("minutes")>>
      [] error = "AddressRateLimit" ->
           <<W("Address"), W("rate"), W("limit"), W("exceeded."), W("Try"), W("again"),
             W("in"), NumberToString(CeilDiv(resetInMs, MS_PER_HOUR)), W("hours")>>
      [] error = "BalanceTooLow" ->
           <<W("Faucet"), W("balance"), W("too"), W("low."), W("Please"), W("contact"),
             W("support.")>>
      [] error = "GetBalanceFailed" ->
           <<W("Failed"), W("to"), W("get"), W("balance"), W("from"), W("blockchain")>>
      [] error = "SendInvalidAddress" ->
           <<W("Invalid"), W("Ethereum"), W("address")>>
      [] error = "ReceiptNull" ->
           <<W("Transaction"), W("receipt"), W("is"), W("null")>>
      [] error = "FailedOnChain" ->
           <<W("Transaction"), W("failed"), W("on"), W("chain")>>
      [] OTHER ->
           <<W("provider"), W("error")>>

\* String.prototype.includes, on words: the pattern occurs in the message, letter
\* case included
includes(message, pattern) ==
    \E i \in 0..(Len(message) - Len(pattern)) :
        SubSeq(message, i + 1, i + Len(pattern)) = pattern

\* the status the catch block of POST /request answers with
CatchStatus(message) ==
    IF includes(message, <<W("rate"), W("limit")>>) THEN 429
    ELSE IF includes(message, <<W("captcha")>>) THEN 400
    ELSE IF includes(message, <<W("balance")>>) THEN 503
    ELSE 500

\* ------------------------------------------------------------------------
\* Helpers on a task record
\* ------------------------------------------------------------------------
\* processRequest was called by the POST /request handler or directly
InPipeline(tk) == tk.op \in {"processRequest", "postRequest"}

\* the handler's promise settles; POST /request answers res.json(...) with 200
Done(tk, result) ==
    [tk EXCEPT !.pc = "done", !.result = result,
               !.status = IF tk.op = "postRequest" THEN 200 ELSE 0]

\* an Error is thrown; the catch block of POST /request maps it to a status
Thrown(tk, result, error) ==
    [Done(tk, result) EXCEPT
        !.error = error,
        !.status = IF tk.op = "postRequest"
                   THEN CatchStatus(MessageOf(error, tk.resetInMs)) ELSE 0]

\* the POST /request handler returns res.status(400) itself
Refused(tk, error) ==
    [tk EXCEPT !.pc = "done", !.result = "BadRequest", !.error = error, !.status = 400]

Logged(tk, step) == [tk EXCEPT !.log = Append(@, step)]

\* redisService.checkRateLimit(key, limit, windowMs) is called
BeginRateLimit(tk, phase, key, limit, windowMs) ==
    [Logged(tk, phase) EXCEPT !.pc = "rl_get", !.phase = phase, !.key = key,
                              !.limit = limit, !.windowMs = windowMs]

\* the address limit with the window of the IP limit
checkAddressRateLimit_HourWindow(tk, phase) ==
    BeginRateLimit(tk, phase, AddressKey(tk.address), ADDRESS_MAX_REQUESTS, IP_WINDOW_MS)

checkAddressRateLimit(tk, phase) ==
    BeginRateLimit(tk, phase, AddressKey(tk.address), ADDRESS_MAX_REQUESTS,
                   ADDRESS_WINDOW_MS)

\* steps 3 and 4 swapped
checkIPRateLimit_AddressFirst(tk) == checkAddressRateLimit(tk, "address")

checkIPRateLimit(tk) ==
    BeginRateLimit(tk, "ip", IPKey(tk.ip), IP_MAX_REQUESTS, IP_WINDOW_MS)

\* blockchainService.sendTokens(address, requestId) is called: the synchronous
\* ethers.isAddress check, then the nonce request
BeginSendTokens(tk) ==
    IF ~IsAddress(tk.address)
    THEN Thrown(Logged(tk, "send"), "ChainError", "SendInvalidAddress")
    ELSE [Logged(tk, "send") EXCEPT !.pc = "nonce"]

\* the caller's continuation once checkRateLimit has answered
AfterRateLimit(tk, allowed, resetInMs) ==
    LET r == [tk EXCEPT !.resetInMs = resetInMs, !.current = <<>>, !.key = <<>>,
                        !.limit = 0, !.windowMs = 0, !.ip = <<>>]
    IN  CASE tk.phase = "ip" ->
               IF ~allowed THEN Thrown(r, "RateLimitedIP", "IPRateLimit")
               ELSE checkAddressRateLimit(r, "address")
          [] tk.phase = "address" ->
               IF ~allowed THEN Thrown(r, "RateLimitedAddress", "AddressRateLimit")
               ELSE [Logged(r, "balance") EXCEPT !.pc = "balance"]
          [] tk.phase = "cooldown" ->
               Done(r, IF allowed THEN "canRequest" ELSE "cooldown")
          [] OTHER ->
               Done(r, IF allowed THEN "eligible" ELSE "notEligible")

SetTask(t, tk) == tasks' = [tasks EXCEPT ![t] = tk]

\* a request is taken by the first free handler
CanStart(t) ==
    /\ tasks[t].pc = "idle"
    /\ \A u \in Tasks : u < t => tasks[u].pc # "idle"

chainVars == <<chainBalance, chainNonce, pendingTxs>>

configVars == <<env, fallbackConfigured, adminToken>>

adminVars == <<adminResponse>>

statsVars == <<statsBlob, txRecords, okSends>>

\* ------------------------------------------------------------------------
\* FaucetService.processRequest, steps 1 and 2
\* ------------------------------------------------------------------------
\* step 1, and the call of captchaService.verify
processRequest(tk) ==
    LET v == Logged(tk, "validate")
    IN  IF ~isValidAddress(v.address)
        THEN Thrown(v, "InvalidAddress", "InvalidAddressFormat")
        ELSE [Logged(v, "captcha") EXCEPT !.pc = "captcha"]

StartProcessRequest(t, address, ip, token) ==
    /\ CanStart(t)
    /\ opsStarted' = opsStarted + 1
    /\ SetTask(t, processRequest([IdleTask EXCEPT !.op = "processRequest",
                                                  !.address = address, !.ip = ip,
                                                  !.token = token]))
    /\ UNCHANGED <<store, statsVars, chainVars, configVars, adminVars, storeErrors, grants, ticks>>

\* CaptchaService.verify: how the call to the provider can end for a token.
\* "accept" and "reject" are the provider's JSON verdicts; on "network-error"
\* and "non-200" axios.post throws; "malformed" is a 200 response whose body is
\* not the provider's JSON object (axios hands the text over as response.data).
ProviderFailures == {"network-error", "non-200", "malformed"}

ProviderAnswers(token) ==
    {IF token = "good" THEN "accept" ELSE "reject"} \cup ProviderFailures

\* what verify returns: success and errorCodes as JavaScript holds them (the
\* value "undefined" is a property that was never set), and whether the
\* provider was called
VerifyResult(success, errorCodes, called) ==
    [success |-> success, errorCodes |-> errorCodes, called |-> called]

\* fails open when the provider cannot be reached
verify_FailOpen(enabled, token, answer) ==
    IF ~enabled THEN VerifyResult("true", "undefined", FALSE)
    ELSE IF token = "" THEN VerifyResult("false", "missing-input-response", FALSE)
    ELSE IF answer \in {"accept"} \cup ProviderFailures
         THEN VerifyResult("true", "undefined", TRUE)
    ELSE VerifyResult("false", "invalid-input-response", TRUE)

\* asks the provider before looking at the switch and at the token
verify_AsksFirst(enabled, token, answer) ==
    IF ~enabled THEN VerifyResult("true", "undefined", TRUE)
    ELSE IF token = "" THEN VerifyResult("false", "missing-input-response", TRUE)
    ELSE IF answer = "accept" THEN VerifyResult("true", "undefined", TRUE)
    ELSE IF answer = "reject" THEN VerifyResult("false", "invalid-input-response", TRUE)
    ELSE IF answer = "malformed" THEN VerifyResult("undefined", "undefined", TRUE)
    ELSE VerifyResult("false", "verification-error", TRUE)

verify(enabled, token, answer) ==
    IF ~enabled THEN VerifyResult("true", "undefined", FALSE)
    ELSE IF token = "" THEN VerifyResult("false", "missing-input-response", FALSE)
    ELSE IF answer = "accept" THEN VerifyResult("true", "undefined", TRUE)
    ELSE IF answer = "reject" THEN VerifyResult("false", "invalid-input-response", TRUE)
    ELSE IF answer = "malformed" THEN VerifyResult("undefined", "undefined", TRUE)
    ELSE VerifyResult("false", "verification-error", TRUE)

\* processRequest's captcha step: `if (!captchaResult.success) throw`
CaptchaVerify(t) ==
    /\ tasks[t].pc = "captcha"
    /\ \E answer \in ProviderAnswers(tasks[t].token) :
          LET r == verify(captchaEnabled, tasks[t].token, answer)
              tk == [tasks[t] EXCEPT !.captcha =
                        [success |-> r.success, errorCodes |-> r.errorCodes,
                         called |-> r.called,
                         answer |-> IF r.called THEN answer ELSE "none"]]
          IN  SetTask(t, IF r.success # "true"
                         THEN Thrown(tk, "CaptchaFailed", "CaptchaFailed")
                         ELSE checkIPRateLimit([tk EXCEPT !.token = ""]))
    /\ UNCHANGED <<store, statsVars, chainVars, configVars, adminVars, storeErrors, grants,
                   opsStarted, ticks>>

\* ------------------------------------------------------------------------
\* RedisService.checkRateLimit, one action per store command
\* ------------------------------------------------------------------------
\* the catch block answers denied instead
RateLimitFailOpen_Closed(t) ==
    /\ storeErrors' = TRUE
    /\ SetTask(t, AfterRateLimit(tasks[t], FALSE, tasks[t].windowMs))
    /\ UNCHANGED <<store, grants>>

\* the catch block: fail open
RateLimitFailOpen(t) ==
    /\ storeErrors' = TRUE
    /\ SetTask(t, AfterRateLimit(tasks[t], TRUE, tasks[t].windowMs))
    /\ UNCHANGED <<store, grants>>

\* the branch checkRateLimit takes on the value it read
\* (if (!current) ... / if (count >= limit) ... / else)
NextCommand_OffByOne(current, limit) ==
    IF current = <<>> THEN "rl_setex"
    ELSE IF ParseInt(current) > limit THEN "rl_ttl"
    ELSE "rl_incr"

NextCommand(current, limit) ==
    IF current = <<>> THEN "rl_setex"
    ELSE IF ParseInt(current) >= limit THEN "rl_ttl"
    ELSE "rl_incr"

\* const current = await this.client.get(key)
RateLimitGet(t) ==
    /\ tasks[t].pc = "rl_get"
    /\ \/ LET tk == tasks[t]
              current == IF store[tk.key] = <<>> THEN <<>> ELSE store[tk.key][1].val
          IN  /\ SetTask(t, [tk EXCEPT !.current = current,
                                            !.pc = NextCommand(current, tk.limit)])
              /\ UNCHANGED <<store, grants, storeErrors>>
       \/ RateLimitFailOpen(t)
    /\ UNCHANGED <<statsVars, chainVars, configVars, adminVars, opsStarted, ticks>>

\* await this.client.setex(key, windowSeconds, '1')
RateLimitSetex(t) ==
    /\ tasks[t].pc = "rl_setex"
    /\ \/ LET tk == tasks[t]
          IN  /\ store' = [store EXCEPT ![tk.key] =
                               <<[val |-> <<"1">>, ttl |-> WindowSeconds(tk.windowMs)]>>]
              /\ grants' = [grants EXCEPT ![tk.key] = @ + 1]
              /\ SetTask(t, AfterRateLimit(tk, TRUE, tk.windowMs))
              /\ UNCHANGED storeErrors
       \/ RateLimitFailOpen(t)
    /\ UNCHANGED <<statsVars, chainVars, configVars, adminVars, opsStarted, ticks>>

\* Redis INCR: a missing key counts from 0 and gets no expiry
Incr(entry) ==
    IF entry = <<>> THEN <<[val |-> <<"1">>, ttl |-> -1]>>
    ELSE <<[entry[1] EXCEPT !.val = NumberToString(ParseInt(@) + 1)]>>

\* a denied call is counted as well
RateLimitTtl_Counts(t) ==
    /\ tasks[t].pc = "rl_ttl"
    /\ \/ LET tk == tasks[t]
              ttl == IF store[tk.key] = <<>> THEN -2 ELSE store[tk.key][1].ttl
          IN  /\ SetTask(t, AfterRateLimit(tk, FALSE, ttl * 1000))
              /\ store' = [store EXCEPT ![tk.key] = Incr(@)]
              /\ UNCHANGED <<grants, storeErrors>>
       \/ RateLimitFailOpen(t)
    /\ UNCHANGED <<statsVars, chainVars, configVars, adminVars, opsStarted, ticks>>

\* const ttl = await this.client.ttl(key): -2 for a missing key, -1 for no expiry
RateLimitTtl(t) ==
    /\ tasks[t].pc = "rl_ttl"
    /\ \/ LET tk == tasks[t]
              ttl == IF store[tk.key] = <<>> THEN -2 ELSE store[tk.key][1].ttl
          IN  /\ SetTask(t, AfterRateLimit(tk, FALSE, ttl * 1000))
              /\ UNCHANGED <<store, grants, storeErrors>>
       \/ RateLimitFailOpen(t)
    /\ UNCHANGED <<statsVars, chainVars, configVars, adminVars, opsStarted, ticks>>

\* await this.client.incr(key)
RateLimitIncr(t) ==
    /\ tasks[t].pc = "rl_incr"
    /\ \/ LET tk == tasks[t]
          IN  /\ store' = [store EXCEPT ![tk.key] = Incr(@)]
              /\ grants' = [grants EXCEPT ![tk.key] = @ + 1]
              /\ SetTask(t, AfterRateLimit(tk, TRUE, tk.windowMs))
              /\ UNCHANGED storeErrors
       \/ RateLimitFailOpen(t)
    /\ UNCHANGED <<statsVars, chainVars, configVars, adminVars, opsStarted, ticks>>

\* ------------------------------------------------------------------------
\* BlockchainService.getBalance and processRequest step 5
\* ------------------------------------------------------------------------
\* balance < config.faucet.amount * 2
BalanceTooLow(balance) == ParsedBalanceLess(balance, FAUCET_AMOUNT * 2)

\* getBalance has returned: step 5 compares, step 6 calls sendTokens
AfterBalance(tk) ==
    LET b == [tk EXCEPT !.balance = <<chainBalance>>]
    IN  IF BalanceTooLow(chainBalance) THEN Thrown(b, "TreasuryLow", "BalanceTooLow")
        ELSE BeginSendTokens(b)

\* the fallback is never asked
OnPrimaryBalanceFailure_NoFallback(tk) == Thrown(tk, "ChainError", "GetBalanceFailed")

\* the catch block of getBalance: the fallback provider is asked when there is one
OnPrimaryBalanceFailure(tk) ==
    IF fallbackConfigured THEN [tk EXCEPT !.pc = "balance_fallback"]
    ELSE Thrown(tk, "ChainError", "GetBalanceFailed")

\* a request refused for a low treasury gets its address unit back
GetBalance_Refund(t) ==
    /\ tasks[t].pc = "balance"
    /\ \/ /\ SetTask(t, AfterBalance(tasks[t]))
          /\ store' = IF BalanceTooLow(chainBalance)
                      THEN [store EXCEPT ![AddressKey(tasks[t].address)] = <<>>]
                      ELSE store
       \/ /\ SetTask(t, OnPrimaryBalanceFailure(tasks[t]))
          /\ UNCHANGED store
    /\ UNCHANGED <<statsVars, chainVars, configVars, adminVars, storeErrors, grants,
                   opsStarted, ticks>>

\* await this.provider.getBalance(this.wallet.address)
GetBalance(t) ==
    /\ tasks[t].pc = "balance"
    /\ \/ SetTask(t, AfterBalance(tasks[t]))
       \/ SetTask(t, OnPrimaryBalanceFailure(tasks[t]))
    /\ UNCHANGED <<store, statsVars, chainVars, configVars, adminVars, storeErrors, grants,
                   opsStarted, ticks>>

\* await this.fallbackProvider.getBalance(this.wallet.address)
GetBalanceFallback(t) ==
    /\ tasks[t].pc = "balance_fallback"
    /\ \/ SetTask(t, AfterBalance(tasks[t]))
       \/ SetTask(t, Thrown(tasks[t], "ChainError", "GetBalanceFailed"))
    /\ UNCHANGED <<store, statsVars, chainVars, configVars, adminVars, storeErrors, grants,
                   opsStarted, ticks>>

\* ------------------------------------------------------------------------
\* BlockchainService.sendTokens
\* ------------------------------------------------------------------------
\* the catch block of sendTokens rethrows
SendFails(t) ==
    /\ SetTask(t, Thrown(tasks[t], "ChainError", "ProviderError"))
    /\ UNCHANGED chainVars

\* const nonce = await this.wallet.getNonce('pending')
GetNonce(t) ==
    /\ tasks[t].pc = "nonce"
    /\ \/ /\ SetTask(t, [tasks[t] EXCEPT !.pc = "gasprice",
                             !.nonce = chainNonce + Cardinality(pendingTxs)])
          /\ UNCHANGED chainVars
       \/ SendFails(t)
    /\ UNCHANGED <<store, statsVars, configVars, adminVars, storeErrors, grants, opsStarted, ticks>>

\* const gasPrice = await this.getGasPrice()
GetGasPrice(t) ==
    /\ tasks[t].pc = "gasprice"
    /\ \/ /\ SetTask(t, [tasks[t] EXCEPT !.pc = "sendtx"])
          /\ UNCHANGED chainVars
       \/ SendFails(t)
    /\ UNCHANGED <<store, statsVars, configVars, adminVars, storeErrors, grants, opsStarted, ticks>>

\* the node takes a transaction whose nonce is the next one of the account and
\* whose cost the balance covers on top of the transfers already pending
NodeAccepts(nonce) ==
    /\ nonce = chainNonce + Cardinality(pendingTxs)
    /\ AfterTransfers(chainBalance, Cardinality(pendingTxs) + 1) # <<>>

\* const txResponse = await this.wallet.sendTransaction(tx)
SendTransaction(t) ==
    /\ tasks[t].pc = "sendtx"
    /\ \/ LET tk == tasks[t]
              tx == [nonce |-> tk.nonce, to |-> ToLowerCase(tk.address), task |-> t,
                     endpoint |-> "primary", value |-> FAUCET_AMOUNT]
          IN  /\ IF NodeAccepts(tk.nonce)
                 THEN /\ pendingTxs' = pendingTxs \cup {tx}
                      /\ SetTask(t, [tk EXCEPT !.pc = "wait", !.sent = TRUE,
                                               !.hash = tk.nonce + 1])
                 ELSE /\ pendingTxs' = pendingTxs
                      /\ SetTask(t, Thrown([tk EXCEPT !.sent = TRUE], "ChainError",
                                           "ProviderError"))
              /\ UNCHANGED <<chainBalance, chainNonce>>
       \/ SendFails(t)
    /\ UNCHANGED <<store, statsVars, configVars, adminVars, storeErrors, grants, opsStarted, ticks>>

\* what txResponse.wait(1) may resolve to: null, or the receipt of the mined
\* transaction with status 0 (reverted) or 1
Receipts == {"null", "reverted", "success"}

\* after a receipt that does not report success, the send is tried again
AfterReceipt_Retry(tk, receipt) ==
    IF receipt # "success" THEN [tk EXCEPT !.pc = "nonce"]
    ELSE IF InPipeline(tk)
    THEN [Logged([tk EXCEPT !.amount = NumberToString(FAUCET_AMOUNT)], "stats")
            EXCEPT !.pc = "stats_get"]
    ELSE Done([tk EXCEPT !.amount = NumberToString(FAUCET_AMOUNT)], "ok")

\* every caller of sendTokens goes on to the stats update
AfterReceipt_AlwaysStats(tk, receipt) ==
    IF receipt = "null" THEN Thrown(tk, "ChainError", "ReceiptNull")
    ELSE IF receipt # "success" THEN Thrown(tk, "ChainError", "FailedOnChain")
    ELSE [Logged([tk EXCEPT !.amount = NumberToString(FAUCET_AMOUNT)], "stats")
            EXCEPT !.pc = "stats_get"]

\* the code after wait(1): the two checks, then sendTokens returns and
\* processRequest calls updateStats
AfterReceipt(tk, receipt) ==
    IF receipt = "null" THEN Thrown(tk, "ChainError", "ReceiptNull")
    ELSE IF receipt # "success" THEN Thrown(tk, "ChainError", "FailedOnChain")
    ELSE IF InPipeline(tk)
    THEN [Logged([tk EXCEPT !.amount = NumberToString(FAUCET_AMOUNT)], "stats")
            EXCEPT !.pc = "stats_get"]
    ELSE Done([tk EXCEPT !.amount = NumberToString(FAUCET_AMOUNT)], "ok")

\* const receipt = await txResponse.wait(1): the transaction is mined, in nonce
\* order, with status 1 (value moved) or 0 (reverted, fee paid)
WaitReceipt(t) ==
    /\ tasks[t].pc = "wait"
    /\ tasks[t].nonce = chainNonce
    /\ \E receipt \in Receipts, status \in {0, 1} :
          /\ receipt = "success" => status = 1
          /\ receipt = "reverted" => status = 0
          /\ chainBalance' = WeiSub(chainBalance, IF status = 1 THEN TxCost ELSE GasFee)
          /\ SetTask(t, AfterReceipt(tasks[t], receipt))
    /\ chainNonce' = chainNonce + 1
    /\ pendingTxs' = {tx \in pendingTxs : tx.task # t}
    /\ UNCHANGED <<store, statsVars, configVars, adminVars, storeErrors, grants, opsStarted,
                   ticks>>

\* ------------------------------------------------------------------------
\* FaucetService.updateStats
\* ------------------------------------------------------------------------
\* the request is counted, its success is not
Bumped_NoSuccess(stats) ==
    [stats EXCEPT !.totalRequests = @ + 1,
                  !.totalDistributed = NumberToString(ParseInt(@) + FAUCET_AMOUNT)]

\* stats.totalRequests += 1; stats.successfulRequests += 1; totalDistributed += amount
Bumped(stats) ==
    [stats EXCEPT !.totalRequests = @ + 1,
                  !.successfulRequests = @ + 1,
                  !.totalDistributed = NumberToString(ParseInt(@) + FAUCET_AMOUNT)]

\* const statsData = await redisService.get(this.STATS_KEY): null when the
\* command fails (RedisService.get catches)
StatsGet(t) ==
    /\ tasks[t].pc = "stats_get"
    /\ \/ /\ SetTask(t, [tasks[t] EXCEPT !.pc = "stats_set",
                             !.stats = Bumped(IF statsBlob = <<>> THEN NoStats
                                              ELSE statsBlob[1])])
          /\ UNCHANGED storeErrors
       \/ /\ SetTask(t, [tasks[t] EXCEPT !.pc = "stats_set", !.stats = Bumped(NoStats)])
          /\ storeErrors' = TRUE
    /\ UNCHANGED <<store, statsVars, chainVars, configVars, adminVars, grants, opsStarted, ticks>>

\* await redisService.set(this.STATS_KEY, JSON.stringify(stats)): false when
\* the command fails (RedisService.set catches)
StatsSet(t) ==
    /\ tasks[t].pc = "stats_set"
    /\ \/ /\ statsBlob' = <<tasks[t].stats>>
          /\ UNCHANGED storeErrors
       \/ /\ statsBlob' = statsBlob
          /\ storeErrors' = TRUE
    /\ SetTask(t, [tasks[t] EXCEPT !.pc = "stats_record"])
    /\ UNCHANGED <<store, txRecords, okSends, chainVars, configVars, adminVars, grants,
                   opsStarted, ticks>>

\* 86400 * 7
RECORD_TTL_SECONDS == 604800

\* a store failure while the record is written fails the request
StatsRecord_Throws(t) ==
    /\ tasks[t].pc = "stats_record"
    /\ \/ /\ txRecords' = {r \in txRecords : r.hash # tasks[t].hash} \cup
                 {[hash |-> tasks[t].hash, ttl |-> RECORD_TTL_SECONDS]}
          /\ SetTask(t, Done(tasks[t], "ok"))
          /\ UNCHANGED storeErrors
       \/ /\ txRecords' = txRecords
          /\ SetTask(t, Thrown(tasks[t], "StoreError", "OTHER"))
          /\ storeErrors' = TRUE
    /\ okSends' = okSends + 1
    /\ UNCHANGED <<store, statsBlob, chainVars, configVars, adminVars, grants, opsStarted, ticks>>

\* the record is kept for one day
StatsRecord_DayExpiry(t) ==
    /\ tasks[t].pc = "stats_record"
    /\ \/ /\ txRecords' = {r \in txRecords : r.hash # tasks[t].hash} \cup
                 {[hash |-> tasks[t].hash, ttl |-> WindowSeconds(ADDRESS_WINDOW_MS)]}
          /\ UNCHANGED storeErrors
       \/ /\ txRecords' = txRecords
          /\ storeErrors' = TRUE
    /\ okSends' = okSends + 1
    /\ SetTask(t, Done(tasks[t], "ok"))
    /\ UNCHANGED <<store, statsBlob, chainVars, configVars, adminVars, grants, opsStarted, ticks>>

\* await redisService.setex(requestKey, 86400 * 7, ...), then processRequest
\* returns the transaction result
StatsRecord(t) ==
    /\ tasks[t].pc = "stats_record"
    /\ \/ /\ txRecords' = {r \in txRecords : r.hash # tasks[t].hash} \cup
                 {[hash |-> tasks[t].hash, ttl |-> RECORD_TTL_SECONDS]}
          /\ UNCHANGED storeErrors
       \/ /\ txRecords' = txRecords
          /\ storeErrors' = TRUE
    /\ okSends' = okSends + 1
    /\ SetTask(t, Done(tasks[t], "ok"))
    /\ UNCHANGED <<store, statsBlob, chainVars, configVars, adminVars, grants, opsStarted, ticks>>

\* ------------------------------------------------------------------------
\* The other entry points
\* ------------------------------------------------------------------------
\* router.get('/cooldown/:address'): isAddress, then FaucetService.checkCooldown
StartCheckCooldown(t, address) ==
    /\ CanStart(t)
    /\ opsStarted' = opsStarted + 1
    /\ LET tk == [IdleTask EXCEPT !.op = "checkCooldown", !.address = address]
       IN  SetTask(t, IF ~IsAddress(address) THEN Done(tk, "invalid")
                      ELSE BeginRateLimit(tk, "cooldown",
                                          ADDRESS_KEY_PREFIX \o ToLowerCase(address),
                                          ADDRESS_MAX_REQUESTS, ADDRESS_WINDOW_MS))
    /\ UNCHANGED <<store, statsVars, chainVars, configVars, adminVars, storeErrors, grants, ticks>>

\* FaucetService.checkEligibility
StartCheckEligibility(t, address) ==
    /\ CanStart(t)
    /\ opsStarted' = opsStarted + 1
    /\ LET tk == [IdleTask EXCEPT !.op = "checkEligibility", !.address = address]
       IN  SetTask(t, IF ~isValidAddress(address) THEN Done(tk, "invalid")
                      ELSE checkAddressRateLimit(tk, "eligibility"))
    /\ UNCHANGED <<store, statsVars, chainVars, configVars, adminVars, storeErrors, grants, ticks>>

\* the amount field a manual-send body may carry: 0 stands for a body without
\* one (undefined and 0 are both falsy)
ManualAmounts == {0, FAUCET_AMOUNT \div 2}

\* const amountToSend = amount || config.faucet.amount
AmountToSend(amount) == IF amount = 0 THEN FAUCET_AMOUNT ELSE amount

\* router.post('/manual-send'): sendTokens is called straight away
manualSend(t, address, amount) ==
    /\ CanStart(t)
    /\ opsStarted' = opsStarted + 1
    /\ LET tk == [IdleTask EXCEPT !.op = "manualSend", !.address = address,
                                  !.amountToSend = IF address = <<>> THEN 0
                                                   ELSE AmountToSend(amount)]
       IN  SetTask(t, IF address = <<>> THEN Done(tk, "BadRequest")
                      ELSE BeginSendTokens(tk))
    /\ UNCHANGED <<store, statsVars, chainVars, configVars, storeErrors, grants, ticks>>

\* a manual send that adminAuth has let through
StartManualSend(t, address) ==
    /\ manualSend(t, address, 0)
    /\ UNCHANGED adminVars

\* router.post('/request'): the body checks, then processRequest
StartPostRequest(t, address, ip, token) ==
    /\ CanStart(t)
    /\ opsStarted' = opsStarted + 1
    /\ LET tk == [IdleTask EXCEPT !.op = "postRequest", !.address = address,
                                  !.ip = ip, !.token = token]
       IN  SetTask(t, IF address = <<>> \/ token = "" THEN Refused(tk, "MissingFields")
                      ELSE IF ~IsAddress(address) THEN Refused(tk, "RouteInvalidAddress")
                      ELSE processRequest(tk))
    /\ UNCHANGED <<store, statsVars, chainVars, configVars, adminVars, storeErrors, grants,
                   ticks>>

\* ------------------------------------------------------------------------
\* The admin routes, behind router.use(adminAuth)
\* ------------------------------------------------------------------------
Answer(route, header, status, type, value) ==
    [route |-> route, header |-> header, status |-> status, type |-> type,
     value |-> value]

\* adminAuth answers 401, 500 or 403 and does not call next()
AdminRefused(route, header) ==
    /\ adminAuth(header, adminToken) # 0
    /\ adminResponse' = Answer(route, header, adminAuth(header, adminToken), "", <<>>)
    /\ UNCHANGED <<tasks, store, statsVars, chainVars, configVars, storeErrors, grants,
                   opsStarted, ticks>>

\* dashboard, balance, recent-requests, config, metrics: read and answer
AdminRead(route, header) ==
    /\ adminAuth(header, adminToken) = 0
    /\ adminResponse' = Answer(route, header, 200, "", <<>>)
    /\ UNCHANGED <<tasks, store, statsVars, chainVars, configVars, storeErrors, grants,
                   opsStarted, ticks>>

\* DEL key
Del(s, key) == [k \in DOMAIN s |-> IF k = key THEN <<>> ELSE s[k]]

\* router.post('/reset-rate-limit'): redisService.delete returns false when the
\* command fails, and the route answers success either way
AdminResetRateLimit(header, type, value) ==
    /\ adminAuth(header, adminToken) = 0
    /\ IF type = "" \/ value = <<>> \/ type \notin {"ip", "address"}
       THEN /\ adminResponse' = Answer("reset-rate-limit", header, 400, type, value)
            /\ UNCHANGED <<store, grants, storeErrors>>
       ELSE LET key == (IF type = "ip" THEN RESET_IP_KEY_PREFIX
                        ELSE RESET_ADDRESS_KEY_PREFIX) \o value
            IN  /\ adminResponse' = Answer("reset-rate-limit", header, 200, type, value)
                /\ \/ /\ store' = Del(store, key)
                      /\ grants' = [k \in Keys |-> IF k = key THEN 0 ELSE grants[k]]
                      /\ UNCHANGED storeErrors
                   \/ /\ storeErrors' = TRUE
                      /\ UNCHANGED <<store, grants>>
    /\ UNCHANGED <<tasks, statsVars, chainVars, configVars, opsStarted, ticks>>

\* router.post('/manual-send') behind adminAuth
AdminManualSend(t, header, address, amount) ==
    /\ adminAuth(header, adminToken) = 0
    /\ manualSend(t, address, amount)
    /\ adminResponse' = Answer("manual-send", header, 0, "", <<>>)

\* ------------------------------------------------------------------------
\* FaucetService.getStats (GET /stats) and getFaucetInfo (GET /info)
\* ------------------------------------------------------------------------
ReadOps == {"getStats", "getFaucetInfo"}

\* faucetBalance: '0' of the catch block of getStats (formatEther never prints
\* it: a balance of nothing is printed '0.0')
ZeroLiteral == <<>>

StartGetStats(t) ==
    /\ CanStart(t)
    /\ opsStarted' = opsStarted + 1
    /\ SetTask(t, [IdleTask EXCEPT !.op = "getStats", !.pc = "gs_get"])
    /\ UNCHANGED <<store, statsVars, chainVars, configVars, adminVars, storeErrors, grants, ticks>>

StartGetFaucetInfo(t) ==
    /\ CanStart(t)
    /\ opsStarted' = opsStarted + 1
    /\ SetTask(t, [IdleTask EXCEPT !.op = "getFaucetInfo", !.pc = "rd_balance"])
    /\ UNCHANGED <<store, statsVars, chainVars, configVars, adminVars, storeErrors, grants, ticks>>

\* const statsData = await redisService.get(this.STATS_KEY): null when the
\* command fails (RedisService.get catches), and null gives the default stats
GetStatsGet(t) ==
    /\ tasks[t].pc = "gs_get"
    /\ \/ /\ SetTask(t, [tasks[t] EXCEPT !.pc = "rd_balance",
                             !.stats = IF statsBlob = <<>> THEN NoStats ELSE statsBlob[1]])
          /\ UNCHANGED storeErrors
       \/ /\ SetTask(t, [tasks[t] EXCEPT !.pc = "rd_balance", !.stats = NoStats])
          /\ storeErrors' = TRUE
    /\ UNCHANGED <<store, statsVars, chainVars, configVars, adminVars, grants, opsStarted, ticks>>

\* getBalance has returned a balance to getStats or getFaucetInfo
AfterReadBalance(tk) ==
    LET b == [tk EXCEPT !.balance = <<chainBalance>>]
    IN  IF tk.op = "getStats" THEN Done(b, "stats")
        ELSE [b EXCEPT !.pc = "gi_address"]

\* getBalance has thrown: the catch block of getStats answers with zeros,
\* getFaucetInfo lets the error through to the route (500)
ReadBalanceFailed(tk) ==
    IF tk.op = "getStats"
    THEN Done([tk EXCEPT !.stats = NoStats, !.balance = ZeroLiteral], "stats")
    ELSE Thrown(tk, "ChainError", "GetBalanceFailed")

\* await this.provider.getBalance(this.wallet.address), called by a read
ReadBalance(t) ==
    /\ tasks[t].pc = "rd_balance"
    /\ \/ SetTask(t, AfterReadBalance(tasks[t]))
       \/ SetTask(t, IF fallbackConfigured THEN [tasks[t] EXCEPT !.pc = "rd_fallback"]
                      ELSE ReadBalanceFailed(tasks[t]))
    /\ UNCHANGED <<store, statsVars, chainVars, configVars, adminVars, storeErrors, grants,
                   opsStarted, ticks>>

\* await this.fallbackProvider.getBalance(this.wallet.address), called by a read
ReadBalanceFallback(t) ==
    /\ tasks[t].pc = "rd_fallback"
    /\ \/ SetTask(t, AfterReadBalance(tasks[t]))
       \/ SetTask(t, ReadBalanceFailed(tasks[t]))
    /\ UNCHANGED <<store, statsVars, chainVars, configVars, adminVars, storeErrors, grants,
                   opsStarted, ticks>>

\* const address = await blockchainService.getAddress(), then the info object
GetInfoAddress(t) ==
    /\ tasks[t].pc = "gi_address"
    /\ SetTask(t, Done([tasks[t] EXCEPT !.amount = NumberToString(FAUCET_AMOUNT)], "info"))
    /\ UNCHANGED <<store, statsVars, chainVars, configVars, adminVars, storeErrors, grants,
                   opsStarted, ticks>>

\* the handler has answered; the task can take another request
Finish(t) ==
    /\ tasks[t].pc = "done"
    /\ SetTask(t, IdleTask)
    /\ UNCHANGED <<store, statsVars, chainVars, configVars, adminVars, storeErrors, grants,
                   opsStarted, ticks>>

\* ------------------------------------------------------------------------
\* Time: the store expires keys
\* ------------------------------------------------------------------------
TickSteps == {WindowSeconds(IP_WINDOW_MS) \div 2, WindowSeconds(ADDRESS_WINDOW_MS)}

Expired(entry, d) == entry # <<>> /\ entry[1].ttl >= 0 /\ entry[1].ttl <= d

Aged(entry, d) ==
    IF entry = <<>> \/ Expired(entry, d) THEN <<>>
    ELSE IF entry[1].ttl < 0 THEN entry
    ELSE <<[entry[1] EXCEPT !.ttl = @ - d]>>

Tick(d) ==
    /\ ticks < MaxTicks
    /\ ticks' = ticks + 1
    /\ store' = [k \in Keys |-> Aged(store[k], d)]
    /\ grants' = [k \in Keys |-> IF Expired(store[k], d) THEN 0 ELSE grants[k]]
    /\ txRecords' = {[r EXCEPT !.ttl = @ - d] : r \in {x \in txRecords : x.ttl > d}}
    /\ UNCHANGED <<tasks, statsBlob, okSends, chainVars, configVars, adminVars, storeErrors,
                   opsStarted>>

\* ------------------------------------------------------------------------
\* Specification
\* ------------------------------------------------------------------------
\* one step of a handler that is under way
Step(t) ==
    \/ CaptchaVerify(t)
    \/ RateLimitGet(t)
    \/ RateLimitSetex(t)
    \/ RateLimitTtl(t)
    \/ RateLimitIncr(t)
    \/ GetBalance(t)
    \/ GetBalanceFallback(t)
    \/ GetNonce(t)
    \/ GetGasPrice(t)
    \/ SendTransaction(t)
    \/ WaitReceipt(t)
    \/ StatsGet(t)
    \/ StatsSet(t)
    \/ StatsRecord(t)
    \/ Finish(t)

\* a request arrives
Start(t, addresses, ips, tokens) ==
    \/ \E a \in addresses, ip \in ips, tok \in tokens : StartProcessRequest(t, a, ip, tok)
    \/ \E a \in addresses : StartCheckCooldown(t, a)
    \/ \E a \in addresses : StartCheckEligibility(t, a)
    \/ \E a \in addresses : StartManualSend(t, a)

\* requests that overlap, for two accounts from one origin
Next ==
    \/ \E t \in Tasks :
          opsStarted < MaxOps /\ Start(t, {ADDR_LOWER, ADDR_OTHER}, {IP_ONE}, {"good"})
    \/ \E t \in Tasks : Step(t)
    \/ \E d \in TickSteps : Tick(d)

Spec == Init /\ [][Next]_vars

\* requests issued one after another, over every input
AllIdle == \A t \in Tasks : tasks[t].pc = "idle"

SeqNext ==
    \/ \E t \in Tasks : opsStarted < MaxSeqOps /\ AllIdle /\ Start(t, Addresses, IPs, Tokens)
    \/ \E t \in Tasks : Step(t)
    \/ \E d \in TickSteps : Tick(d)

SeqSpec == Init /\ [][SeqNext]_vars

\* POST /request, one request at a time, with or without a fallback endpoint
RouteBalances == {Wei(1000, 0, 0), Wei(15, 0, 0)}

RouteInit == InitWith(RouteBalances, BOOLEAN, {ADMIN_TOKEN})

RouteNext ==
    \/ \E t \in Tasks, a \in RouteAddresses, ip \in IPs, tok \in Tokens :
          opsStarted < MaxOps /\ AllIdle /\ StartPostRequest(t, a, ip, tok)
    \/ \E t \in Tasks : Step(t)

RouteSpec == RouteInit /\ [][RouteNext]_vars

\* the admin routes, with ADMIN_TOKEN set or not, next to requests for one account
AdminInit == InitWith({Wei(25, 0, 0)}, {TRUE}, {<<>>, ADMIN_TOKEN})

AdminNext ==
    \/ \E route \in AdminRoutes, h \in AuthHeaders : AllIdle /\ AdminRefused(route, h)
    \/ \E route \in AdminReadRoutes, h \in AuthHeaders : AllIdle /\ AdminRead(route, h)
    \/ \E h \in AuthHeaders, type \in {"", "ip", "address", "key"} :
          \E value \in (IF type = "ip" THEN IPs
                         ELSE IF type = "address" THEN {ADDR_LOWER} ELSE {<<>>, IP_ONE}) :
             AllIdle /\ AdminResetRateLimit(h, type, value)
    \/ \E t \in Tasks, h \in AuthHeaders, a \in {<<>>, ADDR_LOWER}, amount \in ManualAmounts :
          opsStarted < MaxOps /\ AllIdle /\ AdminManualSend(t, h, a, amount)
    \/ \E t \in Tasks, ip \in IPs :
          opsStarted < MaxOps /\ AllIdle /\ StartProcessRequest(t, ADDR_LOWER, ip, "good")
    \/ \E t \in Tasks : Step(t)

AdminSpec == AdminInit /\ [][AdminNext]_vars

\* one step of GET /stats or GET /info
ReadStep(t) ==
    \/ GetStatsGet(t)
    \/ ReadBalance(t)
    \/ ReadBalanceFallback(t)
    \/ GetInfoAddress(t)

\* no handler is between two of its steps
NoneUnderWay == \A t \in Tasks : tasks[t].pc \in {"idle", "done"}

\* GET /stats and GET /info called one after another, next to requests for one
\* account; the answer of a read stays with its handler until the handler is
\* given the next call
InfoInit == InitWith({Wei(25, 0, 0)}, BOOLEAN, {ADMIN_TOKEN})

InfoNext ==
    \/ \E t \in Tasks :
          opsStarted < MaxSeqOps /\ AllIdle /\ StartProcessRequest(t, ADDR_LOWER, IP_ONE, "good")
    \/ \E t \in Tasks : opsStarted < MaxSeqOps /\ NoneUnderWay /\ StartGetStats(t)
    \/ \E t \in Tasks : opsStarted < MaxSeqOps /\ NoneUnderWay /\ StartGetFaucetInfo(t)
    \/ \E t \in Tasks : Step(t)
    \/ \E t \in Tasks : ReadStep(t)

InfoSpec == InfoInit /\ [][InfoNext]_vars

\* requests for two accounts that overlap, on a store that holds no stats blob
\* or the blob of an earlier run
StatsInit == InitFrom({Wei(1000, 0, 0)}, {TRUE}, {ADMIN_TOKEN}, {<<>>, <<PriorStats>>})

StatsNext ==
    \/ \E t \in Tasks, a \in {ADDR_LOWER, ADDR_OTHER} :
          opsStarted < MaxOps /\ StartProcessRequest(t, a, IP_ONE, "good")
    \/ \E t \in Tasks : Step(t)

StatsSpec == StatsInit /\ [][StatsNext]_vars

\* The steps of a handler that end within a bounded time: the captcha call has
\* a 5 s timeout, a store command is given up after its retries, and a JSON-RPC
\* call is timed out by the provider.  wait(1) is not among them: it is called
\* without a timeout and returns only when the transaction is mined.
TimedStep(t) ==
    \/ CaptchaVerify(t)
    \/ RateLimitGet(t)
    \/ RateLimitSetex(t)
    \/ RateLimitTtl(t)
    \/ RateLimitIncr(t)
    \/ GetBalance(t)
    \/ GetBalanceFallback(t)
    \/ GetNonce(t)
    \/ GetGasPrice(t)
    \/ SendTransaction(t)
    \/ StatsGet(t)
    \/ StatsSet(t)
    \/ StatsRecord(t)
    \/ Finish(t)

LiveNext ==
    \/ \E t \in Tasks :
          opsStarted < MaxOps /\ AllIdle /\ StartProcessRequest(t, ADDR_LOWER, IP_ONE, "good")
    \/ \E t \in Tasks : Step(t)

Fairness == \A t \in Tasks : WF_vars(TimedStep(t))

\* requests for one account, one at a time, every bounded step taken in the end
LiveSpec == Init /\ [][LiveNext]_vars /\ Fairness

\* ------------------------------------------------------------------------
\* Properties
\* ------------------------------------------------------------------------
StatsNow == IF statsBlob = <<>> THEN NoStats ELSE statsBlob[1]

TwiceAmount == Wei(2 * FAUCET_AMOUNT, 0, 0)

PipelineOrder == <<"validate", "captcha", "ip", "address", "balance", "send", "stats">>

IsPrefix(s, full) == Len(s) <= Len(full) /\ s = SubSeq(full, 1, Len(s))

InStats(tk) == tk.pc \in {"stats_get", "stats_set", "stats_record"}

InRateLimit(tk) == tk.pc \in {"rl_get", "rl_setex", "rl_ttl", "rl_incr"}

InSend(tk) == tk.pc \in {"nonce", "gasprice", "sendtx", "wait"}

WithinLimits == \A k \in Keys : grants[k] <= LimitOf(k)

\* C1: with the store reachable, the calls answered allowed=true on a key within
\* one window never number more than the key's limit, whatever the interleaving.
C1_AllowedWithinLimit == ~storeErrors => WithinLimits

\* C2: a processRequest performs its steps in the order validate, captcha, IP
\* limit, address limit, balance, send, stats; where it stands agrees with the
\* last step it began; and a request that failed began no step after the one
\* that failed.
C2_StepsInOrder ==
    \A t \in Tasks :
        LET tk == tasks[t]
            n  == Len(tk.log)
        IN  tk.op = "processRequest" =>
              /\ n >= 1
              /\ IsPrefix(tk.log, PipelineOrder)
              /\ tk.pc = "captcha" => n = 2
              /\ InRateLimit(tk) => (n = 3 /\ tk.phase = "ip") \/ (n = 4 /\ tk.phase = "address")
              /\ tk.pc = "balance" => n = 5
              /\ InSend(tk) => n = 6
              /\ InStats(tk) => n = 7
              /\ tk.result = "InvalidAddress" => n = 1
              /\ tk.result = "CaptchaFailed" => n = 2
              /\ tk.result = "RateLimitedIP" => n = 3
              /\ tk.result = "RateLimitedAddress" => n = 4
              /\ tk.result = "TreasuryLow" => n = 5
              /\ tk.result = "ChainError" => n \in {5, 6}
              /\ tk.result = "ok" => n = 7

\* a request went through every step
C2_Witness ==
    \E t \in Tasks :
        /\ tasks[t].op = "processRequest"
        /\ tasks[t].result = "ok"
        /\ tasks[t].log = PipelineOrder

\* C3: with the store reachable, a processRequest that read a balance below
\* 2 x amount at the balance step has failed with the treasury-low error (and
\* so sends nothing), and one that read a balance of at least 2 x amount has
\* not failed with that error.
C3_LowBalanceRefused ==
    \A t \in Tasks :
        LET tk == tasks[t]
        IN  (~storeErrors /\ tk.op = "processRequest" /\ tk.balance # <<>>)
              => IF WeiLess(tk.balance[1], TwiceAmount)
                 THEN tk.pc = "done" /\ tk.result = "TreasuryLow"
                 ELSE tk.result # "TreasuryLow"

\* C4: with the store reachable and every key within its limit, two requests
\* in flight that read the same balance B, 2 x amount <= B < 3 x amount, do not
\* both dispatch a transfer.
C4_NoDoubleDispatch ==
    \A t, u \in Tasks :
        LET a == tasks[t]
            b == tasks[u]
        IN  (~storeErrors /\ WithinLimits /\ t # u
             /\ a.op = "processRequest" /\ b.op = "processRequest"
             /\ a.balance # <<>> /\ b.balance = a.balance
             /\ ~WeiLess(a.balance[1], TwiceAmount)
             /\ WeiLess(a.balance[1], Wei(3 * FAUCET_AMOUNT, 0, 0)))
              => ~(a.hash # 0 /\ b.hash # 0)

\* C5: with the store reachable and every key within its limit, the stats
\* write of a request whose send was confirmed raises successfulRequests by
\* exactly 1 and totalDistributed by exactly the configured amount, and no
\* other step changes the stats.
C5_ExactIncrement ==
    [][(~storeErrors' /\ WithinLimits') =>
         /\ \A t \in Tasks :
               (tasks[t].pc = "stats_set" /\ tasks'[t].pc = "stats_record")
                 => /\ StatsNow'.successfulRequests = StatsNow.successfulRequests + 1
                    /\ ParseInt(StatsNow'.totalDistributed)
                         = ParseInt(StatsNow.totalDistributed) + FAUCET_AMOUNT
         /\ StatsNow' # StatsNow
               => \E t \in Tasks : /\ tasks[t].op = "processRequest"
                                   /\ tasks[t].pc = "stats_set"
                                   /\ tasks'[t].pc = "stats_record"]_vars

\* C6: with the store reachable, every key within its limit and no stats
\* update under way, the counters account for every request that returned a
\* transaction result: no update is lost.
C6_NoLostUpdate ==
    (~storeErrors /\ WithinLimits /\ \A t \in Tasks : ~InStats(tasks[t]))
      => /\ StatsNow.totalRequests = okSends
         /\ StatsNow.successfulRequests = okSends
         /\ ParseInt(StatsNow.totalDistributed) = okSends * FAUCET_AMOUNT

\* C7: no step of a cooldown or eligibility query changes a rate-limit counter
\* or its expiry.
C7_CooldownReadOnly ==
    [][\A t \in Tasks :
          (tasks[t].op \in {"checkCooldown", "checkEligibility"} /\ tasks'[t] # tasks[t])
            => store' = store]_vars

\* C8: the manual send has no transfer accepted by the node while the treasury
\* balance is below 2 x amount.
C8_ManualSendChecksBalance ==
    [][\A t \in Tasks :
          (tasks[t].op = "manualSend" /\ tasks[t].pc = "sendtx" /\ tasks'[t].pc = "wait")
            => ~WeiLess(chainBalance, TwiceAmount)]_vars

\* C9: with the store reachable and calls issued one after another, a call is
\* let through exactly when fewer than `limit` calls were allowed on its key in
\* the key's current window (a window ends when the key expires), and a call
\* that is not let through is answered as denied.
C9_FixedWindow ==
    [][\A t \in Tasks :
          /\ (tasks[t].pc = "rl_get" /\ tasks'[t].pc \in {"rl_setex", "rl_ttl", "rl_incr"})
               => (tasks'[t].pc \in {"rl_setex", "rl_incr"}
                     <=> grants[tasks[t].key] < tasks[t].limit)
          /\ (tasks[t].pc = "rl_ttl" /\ tasks'[t] # tasks[t] /\ ~storeErrors')
               => /\ tasks'[t].pc = "done"
                  /\ tasks'[t].result \in {"RateLimitedIP", "RateLimitedAddress",
                                           "cooldown", "notEligible"}
          /\ (tasks[t].pc \in {"rl_setex", "rl_incr"} /\ tasks'[t] # tasks[t])
               => ~(tasks'[t].result \in {"RateLimitedIP", "RateLimitedAddress",
                                          "cooldown", "notEligible"})]_vars

\* time has passed and a request has just been denied on its address: the
\* address key, created before the clock advanced, has admitted its one call
\* and is still in its window; the key of the request's origin IP_TWO, which
\* had expired, was created anew by this request, the first after the expiry
C9_Witness ==
    \E t \in Tasks :
        /\ ~storeErrors
        /\ ticks > 0
        /\ tasks[t].op = "processRequest"
        /\ tasks[t].result = "RateLimitedAddress"
        /\ store[IPKey(IP_ONE)] = <<>>
        /\ store[IPKey(IP_TWO)] = <<[val |-> <<"1">>, ttl |-> WindowSeconds(IP_WINDOW_MS)]>>
        /\ grants[IPKey(IP_TWO)] = 1
        /\ LET key == AddressKey(tasks[t].address)
           IN  /\ store[key] # <<>>
               /\ store[key][1].ttl < WindowSeconds(ADDRESS_WINDOW_MS)
               /\ grants[key] = ADDRESS_MAX_REQUESTS

\* C10: when the verifier cannot report success (captcha enabled, token not one
\* the provider accepts) the request fails with the captcha error; and a
\* request that failed at the captcha step touched no rate-limit counter.
C10_CaptchaFailureTouchesNoCounter ==
    [][\A t \in Tasks :
          /\ (tasks[t].pc = "captcha" /\ tasks'[t] # tasks[t]
              /\ captchaEnabled /\ tasks[t].token # "good")
               => tasks'[t].pc = "done" /\ tasks'[t].result = "CaptchaFailed"
          /\ (tasks[t].pc = "captcha" /\ tasks'[t].result = "CaptchaFailed")
               => /\ store' = store
                  /\ grants' = grants
                  /\ tasks'[t].log = <<"validate", "captcha">>]_vars

\* a request with a rejected token has failed at the captcha step
C10_Witness ==
    \E t \in Tasks :
        /\ captchaEnabled
        /\ tasks[t].op = "processRequest"
        /\ tasks[t].token = "bad"
        /\ tasks[t].result = "CaptchaFailed"

\* the fixed address format: "0x", then exactly 40 characters, each a hex digit
FixedFormat(address) ==
    /\ Len(address) >= 3
    /\ address[1] = <<"0", 1>>
    /\ address[2] = <<"x", 1>>
    /\ CharsFrom(address, 3) = 40
    /\ \A i \in 3..Len(address) :
          address[i][1] \in {"0", "1", "2", "3", "4", "5", "6", "7", "8", "9",
                             "a", "b", "c", "d", "e", "f",
                             "A", "B", "C", "D", "E", "F"}

\* C11: a processRequest for an address that is not of the fixed format has
\* failed with the invalid-address error at its first step, and the step that
\* took the request called neither the captcha verifier nor the counter store
\* nor the chain client: it changed nothing they hold.
C11_InvalidAddressFailsFirst ==
    [][\A t \in Tasks :
          (tasks'[t].op = "processRequest" /\ tasks'[t] # tasks[t]
           /\ ~FixedFormat(tasks'[t].address))
            => /\ tasks'[t].pc = "done"
               /\ tasks'[t].result = "InvalidAddress"
               /\ tasks'[t].log = <<"validate">>
               /\ UNCHANGED <<store, statsBlob, txRecords, chainBalance, chainNonce,
                              pendingTxs, grants, storeErrors>>]_vars

\* the malformed address 0xZZZZ was refused
C11_Witness ==
    \E t \in Tasks :
        /\ tasks[t].op = "processRequest"
        /\ tasks[t].address = ADDR_BAD
        /\ tasks[t].result = "InvalidAddress"

\* C12: when a store command of a rate-limit check fails, the check answers
\* allowed: a processRequest goes on from the IP check to the address check
\* and from the address check to the balance step, and is not refused by the
\* limit whose check failed.
C12_FailOpen ==
    [][\A t \in Tasks :
          (InRateLimit(tasks[t]) /\ ~storeErrors /\ storeErrors')
            => /\ tasks[t].phase = "ip"
                    => tasks'[t].pc = "rl_get" /\ tasks'[t].phase = "address"
               /\ tasks[t].phase = "address" => tasks'[t].pc = "balance"
               /\ tasks[t].phase = "cooldown" => tasks'[t].result = "canRequest"
               /\ tasks[t].phase = "eligibility" => tasks'[t].result = "eligible"
               /\ ~(tasks'[t].result \in {"RateLimitedIP", "RateLimitedAddress",
                                          "cooldown", "notEligible"})]_vars

\* a request whose address key stands at its limit reached the balance step,
\* because the store could not be read
C12_Witness ==
    \E t \in Tasks :
        /\ storeErrors
        /\ tasks[t].op = "processRequest"
        /\ tasks[t].pc = "balance"
        /\ store[AddressKey(tasks[t].address)] # <<>>
        /\ ParseInt(store[AddressKey(tasks[t].address)][1].val) >= ADDRESS_MAX_REQUESTS

\* C17: a request submits at most one transfer: a task that has sent its
\* transaction never comes back to the nonce, gas-price or submission step, and
\* no step adds more than one pending transaction.  sendTokens returns its
\* result only from wait(1), when the transaction has been mined with the value
\* moved; a request that ends after a submission error, a null receipt or a
\* reverted transaction ends with the chain error.
C17_OneSubmission ==
    [][\A t \in Tasks :
          /\ tasks'[t].pc \in {"nonce", "gasprice", "sendtx"} => ~tasks'[t].sent
          /\ Cardinality(pendingTxs') <= Cardinality(pendingTxs) + 1
          /\ (tasks[t].amount = <<>> /\ tasks'[t].amount # <<>>)
                => /\ tasks[t].pc = "wait" /\ tasks[t].sent
                   /\ chainNonce' = tasks[t].nonce + 1
                   /\ chainBalance' = WeiSub(chainBalance, TxCost)
          /\ (InSend(tasks[t]) /\ tasks'[t] # tasks[t] /\ tasks'[t].amount = <<>>
              /\ ~InSend(tasks'[t]))
                => tasks'[t].pc = "done" /\ tasks'[t].result = "ChainError"
          /\ (InPipeline(tasks'[t]) /\ tasks'[t].result = "ok")
                => tasks'[t].sent /\ tasks'[t].hash # 0 /\ tasks'[t].amount # <<>>]_vars

\* a request whose transaction was mined and reverted has failed, and nothing
\* of it is pending
C17_Witness ==
    \E t \in Tasks :
        /\ tasks[t].op = "processRequest"
        /\ tasks[t].pc = "done"
        /\ tasks[t].error = "FailedOnChain"
        /\ tasks[t].sent
        /\ pendingTxs = {}
        /\ okSends = 1

\* C18: no two transactions handed to the node by sendTokens calls under way
\* carry the same nonce.
C18_DistinctNonces ==
    \A t, u \in Tasks :
        (t # u /\ tasks[t].sent /\ tasks[u].sent) => tasks[t].nonce # tasks[u].nonce

\* C13: every processRequest call completes in the end, with a result or a
\* failure.
C13_EventuallyCompletes ==
    \A t \in Tasks : (tasks[t].op = "processRequest") ~> (tasks[t].pc = "done")

\* the key checkIPRateLimit / checkAddressRateLimit consults for a value
ConsultedKey(type, value) == IF type = "ip" THEN IPKey(value) ELSE AddressKey(value)

\* C14: when POST /admin/reset-rate-limit has answered success for a type and a
\* value, and no store command failed, the counter processRequest consults for
\* that IP or address does not exist.
C14_ResetRemovesCounter ==
    [][(/\ adminResponse' # adminResponse
        /\ adminResponse'.route = "reset-rate-limit"
        /\ adminResponse'.status = 200
        /\ ~storeErrors')
          => store'[ConsultedKey(adminResponse'.type, adminResponse'.value)] = <<>>]_vars

\* C15: POST /request answers a failure of the pipeline with the status of its
\* kind: 400 for an address-validation or captcha failure, 429 for a rate-limit
\* denial, 503 for a low treasury, 500 for any other failure.
C15_StatusByFailure ==
    \A t \in Tasks :
        (tasks[t].op = "postRequest" /\ tasks[t].pc = "done" /\ tasks[t].result # "ok")
          => tasks[t].status =
                CASE tasks[t].result \in {"BadRequest", "InvalidAddress", "CaptchaFailed"}
                       -> 400
                  [] tasks[t].result \in {"RateLimitedIP", "RateLimitedAddress"} -> 429
                  [] tasks[t].result = "TreasuryLow" -> 503
                  [] OTHER -> 500

\* the errors of a dependency that did not answer or answered with a failure
DependencyErrors ==
    {"CaptchaFailed", "GetBalanceFailed", "ProviderError", "ReceiptNull", "FailedOnChain"}

\* the first request, carrying a proof token, of a service whose counters for the request's IP and
\* address are fresh, whose treasury holds 1000 and whose store answers
FirstRequest(tk) ==
    /\ tk.op = "postRequest"
    /\ tk.pc = "done"
    /\ opsStarted = 1
    /\ ~storeErrors
    /\ store[IPKey(IP_TWO)] = InitialStore[IPKey(IP_TWO)]
    /\ tk.balance \in {<<>>, <<Wei(1000, 0, 0)>>}

\* a request that no check has refused: it has a transaction result with
\* amount "10", or a dependency has failed
Served(tk) ==
    IF tk.error = "none"
    THEN tk.result = "ok" /\ tk.amount = <<"1", "0">> /\ tk.status = 200
    ELSE tk.error \in DependencyErrors

\* no counter but those of one IP and one address has been touched
OnlyTouched(ipKey, addressKey) ==
    \A k \in Keys \ {ipKey, addressKey} : store[k] = InitialStore[k]

C19_PrimaryOnly ==
    [][\A t \in Tasks :
          /\ (tasks[t].pc = "balance" /\ tasks'[t].pc # "balance"
              /\ tasks'[t].balance = <<>>)
                => IF fallbackConfigured THEN tasks'[t].pc = "balance_fallback"
                   ELSE tasks'[t].error = "GetBalanceFailed"
          /\ (tasks'[t].pc = "balance_fallback" /\ tasks[t].pc # "balance_fallback")
                => tasks[t].pc = "balance" /\ fallbackConfigured
          /\ (tasks'[t].error = "GetBalanceFailed" /\ tasks[t].error = "none")
                => \/ tasks[t].pc = "balance_fallback"
                   \/ tasks[t].pc = "balance" /\ ~fallbackConfigured
          /\ \A tx \in pendingTxs' : tx.endpoint = "primary"
          /\ (InSend(tasks[t]) /\ tasks'[t].error = "ProviderError" /\ ~tasks'[t].sent)
                => pendingTxs' = pendingTxs]_vars

\* the fallback is being asked for the balance
C19_Witness ==
    \E t \in Tasks :
        /\ tasks[t].pc = "balance_fallback"
        /\ fallbackConfigured
        /\ tasks[t].balance = <<>>

\* the request carries Authorization: Bearer <the configured, non-empty token>
Authorized(header) == adminToken # <<>> /\ header = <<<<"Bearer ", 1>>>> \o adminToken

\* C20: an admin route that answers a request without the configured token
\* answers 401, 403 or 500 and changes no task, counter, stats or chain state;
\* a manual send starts, and a handler answers, only for a request that
\* carries the token.
C20_AdminAuth ==
    [][/\ adminResponse' # adminResponse
            => IF Authorized(adminResponse'.header)
               THEN adminResponse'.status \notin {401, 403, 500}
               ELSE /\ adminResponse'.status \in {401, 403, 500}
                    /\ UNCHANGED <<tasks, store, grants, storeErrors, statsBlob,
                                   txRecords, okSends, chainBalance, chainNonce,
                                   pendingTxs>>
       /\ \A t \in Tasks :
             (tasks'[t].op = "manualSend" /\ tasks[t].op # "manualSend")
               => adminResponse'.route = "manual-send"
                  /\ Authorized(adminResponse'.header)]_vars

\* a manual send with a wrong token was answered 403 and nothing is under way
C20_Witness ==
    /\ adminResponse.route = "manual-send"
    /\ adminResponse.status = 403
    /\ AllIdle
    /\ pendingTxs = {}

\* C21: with captcha enabled, whenever the call to the provider fails (network
\* failure, non-200 response, malformed body) verify returns success=false
\* with the code 'verification-error', and the request fails with the captcha
\* error.
C21_ProviderFailureCode ==
    \A t \in Tasks :
        (/\ InPipeline(tasks[t])
         /\ captchaEnabled
         /\ tasks[t].captcha.answer \in ProviderFailures)
            => /\ tasks[t].captcha.success = "false"
               /\ tasks[t].captcha.errorCodes = "verification-error"
               /\ tasks[t].result = "CaptchaFailed"

\* C22: at the captcha step, with captcha enabled and an empty token, verify
\* returns success=false with 'missing-input-response' and the provider was
\* not called; with captcha disabled it returns success=true for every token,
\* again without a call, and the request goes on to the rate limits.
C22_NoProviderCall ==
    [][\A t \in Tasks :
          (tasks[t].pc = "captcha" /\ tasks'[t] # tasks[t])
             => /\ (captchaEnabled /\ tasks[t].token = "")
                      => /\ tasks'[t].captcha =
                                [success |-> "false",
                                 errorCodes |-> "missing-input-response",
                                 called |-> FALSE, answer |-> "none"]
                         /\ tasks'[t].result = "CaptchaFailed"
                /\ ~captchaEnabled
                      => /\ tasks'[t].captcha.success = "true"
                         /\ ~tasks'[t].captcha.called
                         /\ tasks'[t].result # "CaptchaFailed"
                         /\ tasks'[t].pc = "rl_get" /\ tasks'[t].phase = "ip"]_vars

\* a request without a token was refused with the missing-input code
C22_Witness ==
    \E t \in Tasks :
        /\ captchaEnabled
        /\ tasks[t].op = "processRequest"
        /\ tasks[t].pc = "done"
        /\ tasks[t].token = ""
        /\ tasks[t].captcha.errorCodes = "missing-input-response"
        /\ ~tasks[t].captcha.called

\* C23: in a deployment that sets the captcha variables as the guide
\* prescribes, a request whose token the provider does not accept fails at the
\* captcha step (so it reaches no rate limit and no transfer).
C23_GuideEnforcesCaptcha ==
    [][\A t \in Tasks :
          (/\ env = DEPLOYMENT_ENV
           /\ tasks[t].pc = "captcha"
           /\ tasks[t].token = "bad"
           /\ tasks'[t] # tasks[t])
             => /\ tasks'[t].pc = "done"
                /\ tasks'[t].result = "CaptchaFailed"]_vars

\* the spellings of the account 0xaaaa...a that pass the format check
Spellings == {ADDR_LOWER, ADDR_UPPER, ADDR_MIXED}

\* the one counter of that account
SharedKey == ADDRESS_KEY_PREFIX \o ADDR_LOWER

\* C24: requests for spellings of one address that differ only in letter case
\* use one counter: the address check of each of them works on the key of the
\* lower-case spelling, a check that reads `limit` or more from that counter
\* goes to the denied branch whatever the spelling, and (store reachable,
\* calls one after another) the counter admits no more than the address limit
\* per window.
C24_CaseInsensitiveKey ==
    [][\A t \in Tasks :
          (/\ InRateLimit(tasks'[t])
           /\ tasks'[t].phase = "address"
           /\ tasks'[t].address \in Spellings)
             => /\ tasks'[t].key = SharedKey
                /\ ~storeErrors' => grants'[SharedKey] <= ADDRESS_MAX_REQUESTS
                /\ (/\ tasks[t].pc = "rl_get" /\ tasks[t].phase = "address"
                    /\ tasks'[t] # tasks[t]
                    /\ ~storeErrors'
                    /\ store[SharedKey] # <<>>
                    /\ ParseInt(store[SharedKey][1].val) >= ADDRESS_MAX_REQUESTS)
                      => tasks'[t].pc = "rl_ttl"]_vars

\* a request that spells the address in upper case is denied on the counter
\* of the lower-case key, which an earlier request used up
C24_Witness ==
    \E t \in Tasks :
        /\ tasks[t].address = ADDR_UPPER
        /\ tasks[t].phase = "address"
        /\ tasks[t].pc = "rl_ttl"
        /\ tasks[t].key = SharedKey
        /\ store[SharedKey] # <<>>
        /\ grants[SharedKey] = ADDRESS_MAX_REQUESTS
        /\ ~storeErrors

\* C25: a check that answers denied (its TTL command succeeded) reports the
\* remaining lifetime of its key: the key exists with an expiry, the reported
\* delay equals that time to live, and it is never negative, so resetAt is not
\* before the call.
C25_ResetAtIsExpiry ==
    [][\A t \in Tasks :
          (/\ tasks[t].pc = "rl_ttl"
           /\ tasks'[t] # tasks[t]
           /\ tasks'[t].result \in {"RateLimitedIP", "RateLimitedAddress",
                                     "cooldown", "notEligible"})
             => /\ store[tasks[t].key] # <<>>
                /\ store[tasks[t].key][1].ttl > 0
                /\ tasks'[t].resetInMs = store[tasks[t].key][1].ttl * 1000
                /\ tasks'[t].resetInMs >= 0]_vars

\* C27: every counter in the store carries an expiry: no key is left without a
\* time to live (so every key that has reached its limit expires when its
\* window has passed).
C27_CountersExpire ==
    \A k \in Keys : store[k] # <<>> => store[k][1].ttl > 0

\* the window of the limit a key belongs to, in seconds
WindowOf(k) ==
    IF k \in {IPKey(ip) : ip \in IPs} THEN WindowSeconds(IP_WINDOW_MS)
    ELSE WindowSeconds(ADDRESS_WINDOW_MS)

\* C28: the limiter is a fixed window: a step of a handler (time does not pass)
\* that creates a counter gives it the expiry of one window, and no step
\* changes the expiry of a counter that exists: no call extends or shortens
\* the window.
C28_ExpirySetOnce ==
    [][ticks' = ticks
         => \A k \in Keys :
               /\ (store[k] # <<>> /\ store'[k] # <<>>)
                     => store'[k][1].ttl = store[k][1].ttl
               /\ (store[k] = <<>> /\ store'[k] # <<>>)
                     => store'[k][1].ttl = WindowOf(k)]_vars

\* C29: a checkRateLimit call that is denied writes nothing: neither the step
\* that reads a count at or above the limit nor the step that reads the time
\* to live changes a count or an expiry in the counter store.
C29_DeniedCallWritesNothing ==
    [][\A t \in Tasks :
          (/\ tasks'[t] # tasks[t]
           /\ \/ tasks[t].pc = "rl_get" /\ tasks'[t].pc = "rl_ttl"
              \/ /\ tasks[t].pc = "rl_ttl"
                 /\ tasks'[t].result \in {"RateLimitedIP", "RateLimitedAddress",
                                           "cooldown", "notEligible"})
             => store' = store]_vars

\* a request was denied by the address limit while the counter holds `limit`
C29_Witness ==
    \E t \in Tasks :
        /\ tasks[t].op = "processRequest"
        /\ tasks[t].pc = "done"
        /\ tasks[t].result = "RateLimitedAddress"
        /\ tasks[t].resetInMs > 0
        /\ store[AddressKey(tasks[t].address)] # <<>>
        /\ store[AddressKey(tasks[t].address)][1].val = NumberToString(ADDRESS_MAX_REQUESTS)

\* the count a key holds (0 when the key is missing)
CountOf(s, k) == IF s[k] = <<>> THEN 0 ELSE ParseInt(s[k][1].val)

\* the key has been counted up since the service started
Consumed(s, k) == CountOf(s, k) > CountOf(InitialStore, k)

\* the results of a processRequest that failed after its rate-limit checks
FailedAfterLimits == {"TreasuryLow", "ChainError"}

\* C30: the pipeline never gives a counter unit back.  A step of a
\* processRequest changes the counter store only when a rate-limit check lets
\* the request through, and then it raises the count of the check's key by
\* one; every other step (the denial by the address limit, the balance check,
\* the send and its failures) leaves every counter as it is.  So (store
\* reachable, no window over) a request denied by the address limit has
\* counted on an IP key, and a request that failed at the balance check or at
\* the send leaves an IP key and its address key counted.
C30_NoRollback ==
    [][\A t \in Tasks :
          (tasks[t].op = "processRequest" /\ tasks'[t] # tasks[t])
             => /\ (tasks[t].pc \in {"rl_setex", "rl_incr"} /\ store' # store)
                      => /\ CountOf(store', tasks[t].key) = CountOf(store, tasks[t].key) + 1
                         /\ \A k \in Keys \ {tasks[t].key} : store'[k] = store[k]
                /\ tasks[t].pc \notin {"rl_setex", "rl_incr"} => store' = store
                /\ (/\ tasks'[t].pc = "done" /\ ~storeErrors' /\ ticks' = 0
                    /\ tasks'[t].result \in FailedAfterLimits \cup {"RateLimitedAddress"})
                      => /\ \E ip \in IPs : Consumed(store', IPKey(ip))
                         /\ tasks'[t].result \in FailedAfterLimits
                               => Consumed(store', AddressKey(tasks'[t].address))]_vars

\* a request refused for a low treasury balance has left its address counter
\* and an IP counter counted
C30_Witness ==
    \E t \in Tasks :
        /\ tasks[t].op = "processRequest"
        /\ tasks[t].pc = "done"
        /\ tasks[t].result = "TreasuryLow"
        /\ ~storeErrors /\ ticks = 0
        /\ Consumed(store, AddressKey(tasks[t].address))
        /\ \E ip \in IPs : Consumed(store, IPKey(ip))

\* what a read handed back: the counters, the balance and the amount
DataOf(tk) ==
    [result |-> tk.result, stats |-> tk.stats, faucetBalance |-> tk.balance,
     amount |-> tk.amount]

\* C26: GET /stats and GET /info are idempotent reads: two calls of one of
\* them with no request between them (the chain balance is the same) that
\* returned data have returned identical data.
C26_IdempotentReads ==
    \A t, u \in Tasks :
        (/\ tasks[t].op \in ReadOps
         /\ tasks[u].op = tasks[t].op
         /\ tasks[t].result \in {"stats", "info"}
         /\ tasks[u].result \in {"stats", "info"})
            => DataOf(tasks[t]) = DataOf(tasks[u])

\* C31: totalRequests, successfulRequests and totalDistributed never decrease:
\* whenever the stats blob is written, each of the three is at least what the
\* blob held before.
C31_CountersNeverDecrease ==
    [][LET old == StatsNow
           new == IF statsBlob' = <<>> THEN NoStats ELSE statsBlob'[1]
       IN  /\ new.totalRequests >= old.totalRequests
           /\ new.successfulRequests >= old.successfulRequests
           /\ ParseInt(new.totalDistributed) >= ParseInt(old.totalDistributed)]_vars

C33_StatsFailureKeepsResult ==
    [][\A t \in Tasks :
          (InStats(tasks[t]) /\ tasks'[t] # tasks[t])
             => /\ tasks'[t].error = "none"
                /\ \/ InStats(tasks'[t])
                   \/ /\ tasks[t].pc = "stats_record"
                      /\ tasks'[t].pc = "done"
                      /\ tasks'[t].result = "ok"
                      /\ tasks'[t].amount = NumberToString(FAUCET_AMOUNT)
                      /\ tasks'[t].hash = tasks[t].hash
                /\ (~storeErrors /\ storeErrors')
                      => statsBlob' = statsBlob /\ txRecords' = txRecords]_vars

\* a request has returned its transaction result although the store failed
\* during the stats update: neither the blob nor a record was written
C33_Witness ==
    \E t \in Tasks :
        /\ InPipeline(tasks[t])
        /\ tasks[t].pc = "done"
        /\ tasks[t].result = "ok"
        /\ storeErrors
        /\ statsBlob = <<PriorStats>>
        /\ txRecords = {}
        /\ okSends = 1

\* the record updateStats stores for a transaction hash
RecordOf(hash) == [hash |-> hash, ttl |-> RECORD_TTL_SECONDS]

\* C34: a transaction record is stored on confirmed success and only then.
\* The records change only at the last step of the stats update of a request
\* whose transfer was confirmed, which stores the record of the request's hash
\* with an expiry of 7 days; while the store answers, that step does store
\* it; and a step that ends a request in failure stores nothing.
C34_RecordOnSuccessOnly ==
    [][ticks' = ticks
         => /\ txRecords' # txRecords
                 => \E t \in Tasks :
                       /\ InPipeline(tasks[t])
                       /\ tasks[t].pc = "stats_record"
                       /\ tasks[t].sent
                       /\ tasks'[t].pc = "done" /\ tasks'[t].result = "ok"
                       /\ txRecords' = {r \in txRecords : r.hash # tasks[t].hash}
                                           \cup {RecordOf(tasks[t].hash)}
            /\ \A t \in Tasks :
                  /\ (tasks[t].pc = "stats_record" /\ tasks'[t] # tasks[t] /\ ~storeErrors')
                        => RecordOf(tasks[t].hash) \in txRecords'
                  /\ (tasks[t].pc # "done" /\ tasks'[t].pc = "done"
                      /\ tasks'[t].result # "ok")
                        => txRecords' = txRecords]_vars

\* a confirmed request has stored the record of its hash, to expire in 7 days
C34_Witness ==
    \E t \in Tasks :
        /\ InPipeline(tasks[t])
        /\ tasks[t].pc = "done"
        /\ tasks[t].result = "ok"
        /\ RecordOf(tasks[t].hash) \in txRecords

\* C36: the manual send transfers the amount of its request: the transaction
\* it hands to the node carries the amount field of the body when there is
\* one and the configured amount otherwise, and the result it returns names
\* that amount.
C36_ManualSendAmount ==
    /\ \A tx \in pendingTxs :
          tasks[tx.task].op = "manualSend" => tx.value = tasks[tx.task].amountToSend
    /\ \A t \in Tasks :
          (tasks[t].op = "manualSend" /\ tasks[t].result = "ok")
             => tasks[t].amount = NumberToString(tasks[t].amountToSend)

\* C35: the manual send leaves the pipeline's bookkeeping alone: no step of
\* it, from the call of the route to its answer, changes a rate-limit
\* counter, the stats blob or the transaction records.
C35_ManualSendFrame ==
    [][\A t \in Tasks :
          (/\ tasks'[t] # tasks[t]
           /\ tasks[t].op = "manualSend" \/ tasks'[t].op = "manualSend")
             => /\ store' = store
                /\ grants' = grants
                /\ statsBlob' = statsBlob
                /\ txRecords' = txRecords]_vars

\* a manual send was confirmed on chain (the balance went down by the transfer
\* and its fee) and nothing is counted: no counter for the address, no stats,
\* no record
C35_Witness ==
    \E t \in Tasks :
        /\ tasks[t].op = "manualSend"
        /\ tasks[t].pc = "done"
        /\ tasks[t].result = "ok"
        /\ opsStarted = 1
        /\ chainBalance = WeiSub(Wei(25, 0, 0), TxCost)
        /\ store[AddressKey(tasks[t].address)] = <<>>
        /\ StatsNow.totalDistributed = <<"0">>
        /\ txRecords = {}

====
